---- MODULE Spec2Model ----
(***************************************************************************)
(* Model of RPGD_main.py: run(src1, src2, src3) aligns two candidate       *)
(* position series (Source 1, Source 2) onto the clock of a reference      *)
(* series (Source 3) with pandas.merge_asof(direction='nearest'), shows    *)
(* correlation plots, computes the per-axis mean absolute error, prints a  *)
(* summary table and shows Bland-Altman plots.                             *)
(*                                                                         *)
(* A DataFrame is a sequence of rows; a row is a record whose fields are   *)
(* the column names.  A merged row is [left |-> reference row,             *)
(* right |-> <<candidate row>>], with right = <<>> where pandas fills the  *)
(* candidate columns with NaN.  Coordinates are integers (fixed-point      *)
(* units); a mean is kept as the exact fraction [num, den].                *)
(***************************************************************************)
EXTENDS Integers, Sequences, FiniteSets, TLC

\* ---------------------------------------------------------------- bounds
MaxLen == 3      \* rows per input series
MaxTime == 3     \* timestamps are 0..MaxTime
MaxCoord == 1    \* coordinates and ranges are 0..MaxCoord

VARIABLES
  pc,            \* position in run
  source1_raw,   \* the caller's DataFrame passed as src1
  source2_raw,   \* the caller's DataFrame passed as src2
  source3_raw,   \* the caller's DataFrame passed as src3 (src3 is never rebound)
  src1,          \* local name src1 (rebound by rename)
  src2,          \* local name src2 (rebound by rename)
  src1_3,        \* merge of Source 3 with Source 1
  src2_3,        \* merge of Source 3 with Source 2
  MAE1_3,        \* [x, y, z] unrounded errors of Source 1
  MAE2_3,        \* [x, y, z] unrounded errors of Source 2
  MAE,           \* rows of the PrettyTable
  printed,       \* TRUE once print(MAE) ran
  shown,         \* number of figures presented by plt.show()
  err            \* "none", or the exception that ended run

vars == <<pc, source1_raw, source2_raw, source3_raw, src1, src2, src1_3,
          src2_3, MAE1_3, MAE2_3, MAE, printed, shown, err>>

\* ------------------------------------------------------------- arithmetic
Abs(n) == IF n < 0 THEN -n ELSE n

\* round(v, 4) of the fraction num/den, in units of 1e-4.  A tie needs
\* 2*10^4*num/den to be an odd integer, which needs 32 | den.
Round4(q) == (2 * 10000 * q.num + q.den) \div (2 * q.den)

\* ------------------------------------------------------------ DataFrames
RECURSIVE InsertByTime(_, _)
InsertByTime(sorted, row) ==
  IF sorted = <<>> THEN <<row>>
  ELSE IF sorted[Len(sorted)].Time <= row.Time THEN Append(sorted, row)
  ELSE Append(InsertByTime(SubSeq(sorted, 1, Len(sorted) - 1), row),
              sorted[Len(sorted)])

\* df.sort_values(by='Time') returns a new, stably sorted frame
RECURSIVE sort_values(_)
sort_values(df) ==
  IF df = <<>> THEN <<>>
  ELSE InsertByTime(sort_values(SubSeq(df, 1, Len(df) - 1)), df[Len(df)])

\* The frame object df after the statement `df.sort_values(by='Time')`:
\* inplace defaults to False and the result is discarded.
SortedInPlace(df) == sort_values(df)
AfterSortStatement(df) == df

\* src1.rename(columns={"Time": "Time_1", "X": "X_1", "Y": "Y_1", "Z": "Z_1"})
Rename1(df) ==
  [i \in 1..Len(df) |->
     [Time_1 |-> df[i].Time, X_1 |-> df[i].X, Y_1 |-> df[i].Y, Z_1 |-> df[i].Z]]

\* src2.rename(columns={"Time": "Time_2", "x": "X_2", "y": "Y_2", "z": "Z_2"})
Rename2(df) ==
  [i \in 1..Len(df) |->
     [Time_2 |-> df[i].Time, X_2 |-> df[i].x, Y_2 |-> df[i].y, Z_2 |-> df[i].z]]

Keys3(df) == [i \in 1..Len(df) |-> df[i].Time]
Keys1(df) == [i \in 1..Len(df) |-> df[i].Time_1]
Keys2(df) == [i \in 1..Len(df) |-> df[i].Time_2]

IsSorted(keys) == \A i \in 1..(Len(keys) - 1) : keys[i] <= keys[i + 1]

\* ------------------------------------------------- pandas.merge_asof
\* Positions are 0-based as in the join kernels; -1 means "no row".

\* asof_join_backward: `while right_pos < right_size and
\* right_values[right_pos] <= left_values[left_pos]: right_pos += 1`
RECURSIVE AdvanceBackward(_, _, _)
AdvanceBackward(right_values, x, right_pos) ==
  IF right_pos < Len(right_values) /\ right_values[right_pos + 1] <= x
  THEN AdvanceBackward(right_values, x, right_pos + 1)
  ELSE right_pos

\* asof_join_backward: one cursor over right, left rows first to last;
\* yields for each left row the last right position whose key is <= its key
RECURSIVE BackwardSweep(_, _, _, _)
BackwardSweep(left_values, right_values, left_pos, right_pos) ==
  IF left_pos >= Len(left_values) THEN <<>>
  ELSE LET restart == IF right_pos < 0 THEN 0 ELSE right_pos
           found == AdvanceBackward(right_values, left_values[left_pos + 1],
                                    restart) - 1
       IN  <<found>> \o BackwardSweep(left_values, right_values,
                                      left_pos + 1, found)

asof_join_backward(left_values, right_values) ==
  BackwardSweep(left_values, right_values, 0, 0)

\* asof_join_forward: `while right_pos >= 0 and
\* right_values[right_pos] >= left_values[left_pos]: right_pos -= 1`
RECURSIVE AdvanceForward(_, _, _)
AdvanceForward(right_values, x, right_pos) ==
  IF right_pos >= 0 /\ right_values[right_pos + 1] >= x
  THEN AdvanceForward(right_values, x, right_pos - 1)
  ELSE right_pos

\* asof_join_forward: one cursor over right, left rows last to first;
\* yields for each left row the first right position whose key is >= its key
RECURSIVE ForwardSweep(_, _, _, _)
ForwardSweep(left_values, right_values, left_pos, right_pos) ==
  IF left_pos < 0 THEN <<>>
  ELSE LET right_size == Len(right_values)
           restart == IF right_pos = right_size THEN right_size - 1
                      ELSE right_pos
           found == AdvanceForward(right_values, left_values[left_pos + 1],
                                   restart) + 1
       IN  ForwardSweep(left_values, right_values, left_pos - 1, found)
             \o <<IF found # right_size THEN found ELSE -1>>

asof_join_forward(left_values, right_values) ==
  ForwardSweep(left_values, right_values, Len(left_values) - 1,
               Len(right_values) - 1)

\* Variants of the choice below, used to show that the properties depend on it
NearestTiesLater(x, right_values, b, f) ==
  IF b # -1 /\ f # -1
  THEN IF x - right_values[b + 1] < right_values[f + 1] - x THEN b ELSE f
  ELSE IF b # -1 THEN b ELSE f
NearestBackwardOnly(x, right_values, b, f) == b
NearestPreferBackward(x, right_values, b, f) == IF b # -1 THEN b ELSE f

\* asof_join_nearest: `bri[i] if diff_b <= diff_f else fri[i]` when both
\* exist, else whichever exists
Nearest(x, right_values, b, f) ==
  IF b # -1 /\ f # -1
  THEN IF x - right_values[b + 1] <= right_values[f + 1] - x THEN b ELSE f
  ELSE IF b # -1 THEN b ELSE f

asof_join_nearest(left_values, right_values) ==
  LET bri == asof_join_backward(left_values, right_values)
      fri == asof_join_forward(left_values, right_values)
  IN  [i \in 1..Len(left_values) |->
         Nearest(left_values[i], right_values, bri[i], fri[i])]

\* The exception merge_asof raises for these keys, or "none"
MergeError(left_values, right_values) ==
  IF ~IsSorted(left_values) THEN "ValueError: left keys must be sorted"
  ELSE IF ~IsSorted(right_values) THEN "ValueError: right keys must be sorted"
  ELSE "none"

\* pd.merge_asof(left, right, left_on=..., right_on=..., direction='nearest'):
\* a left join, one output row per left row; no tolerance is passed
merge_asof(left, right, left_values, right_values) ==
  LET right_indexer == asof_join_nearest(left_values, right_values)
  IN  [i \in 1..Len(left) |->
         [left |-> left[i],
          right |-> IF right_indexer[i] = -1 THEN <<>>
                    ELSE <<right[right_indexer[i] + 1]>>]]

\* ------------------------------------------------------------- metrics
\* Sum over the first n rows of |y_true - y_pred| for one pair of columns
RECURSIVE AbsErrorSum(_, _, _, _)
AbsErrorSum(df, true_col, pred_col, n) ==
  IF n = 0 THEN 0
  ELSE AbsErrorSum(df, true_col, pred_col, n - 1)
         + Abs(df[n].right[1][pred_col] - df[n].left[true_col])

RECURSIVE SignedErrorSum(_, _, _, _)
SignedErrorSum(df, true_col, pred_col, n) ==
  IF n = 0 THEN 0
  ELSE SignedErrorSum(df, true_col, pred_col, n - 1)
         + (df[n].right[1][pred_col] - df[n].left[true_col])

\* Variant: the mean of the signed differences
mean_signed_error(df, true_col, pred_col) ==
  [num |-> SignedErrorSum(df, true_col, pred_col, Len(df)), den |-> Len(df)]

\* sklearn.metrics.mean_absolute_error(df[true_col], df[pred_col])
mean_absolute_error(df, true_col, pred_col) ==
  [num |-> AbsErrorSum(df, true_col, pred_col, Len(df)), den |-> Len(df)]

\* The exception mean_absolute_error raises on the columns of df, or "none"
MetricError(df) ==
  IF df = <<>> THEN "ValueError: Found array with 0 sample(s)"
  ELSE IF \E i \in 1..Len(df) : df[i].right = <<>>
       THEN "ValueError: Input contains NaN"
       ELSE "none"

RECURSIVE ColumnSum(_, _, _)
ColumnSum(df, col, n) ==
  IF n = 0 THEN 0 ELSE ColumnSum(df, col, n - 1) + df[n][col]

\* np.mean(df[col]) of a non-empty column
np_mean(df, col) == [num |-> ColumnSum(df, col, Len(df)), den |-> Len(df)]

\* Variants of the error rows, used to show that the properties depend on them
Source2ErrorsFromSource1(t1, t2) ==
  [x |-> mean_absolute_error(t1, "X", "X_1"),
   y |-> mean_absolute_error(t1, "Y", "Y_1"),
   z |-> mean_absolute_error(t1, "Z", "Z_1")]

\* lines 67-69
Source1Errors(t1) ==
  [x |-> mean_absolute_error(t1, "X", "X_1"),
   y |-> mean_absolute_error(t1, "Y", "Y_1"),
   z |-> mean_absolute_error(t1, "Z", "Z_1")]

\* lines 70-72
Source2Errors(t1, t2) ==
  [x |-> mean_absolute_error(t2, "X", "X_2"),
   y |-> mean_absolute_error(t2, "Y", "Y_2"),
   z |-> mean_absolute_error(t2, "Z", "Z_2")]

TableRowsWithoutSource3(e1, e2, ref) ==
  << <<"Source 1", Round4(e1.x), Round4(e1.y), Round4(e1.z)>>,
     <<"Source 2", Round4(e2.x), Round4(e2.y), Round4(e2.z)>> >>

\* MAE.add_rows([...]) of lines 77-83
TableRows(e1, e2, ref) ==
  << <<"Source 1", Round4(e1.x), Round4(e1.y), Round4(e1.z)>>,
     <<"Source 2", Round4(e2.x), Round4(e2.y), Round4(e2.z)>>,
     <<"Source 3", Round4(np_mean(ref, "Xrange")),
                   Round4(np_mean(ref, "Yrange")),
                   Round4(np_mean(ref, "Zrange"))>> >>

\* ---------------------------------------------------------------- inputs
Times == 0..MaxTime
Coord == 0..MaxCoord

SeqsUpTo(S, lo, hi) == UNION {[1..k -> S] : k \in lo..hi}

\* system1.csv: Time, X, Y, Z
Row1(t, p) == [Time |-> t, X |-> p[1], Y |-> p[2], Z |-> p[3]]
\* system2.csv: Time, x, y, z
Row2(t, p) == [Time |-> t, x |-> p[1], y |-> p[2], z |-> p[3]]
\* system3.csv: Time, X, Y, Z and the reported ranges
Row3(t, p, r) == [Time |-> t, X |-> p[1], Y |-> p[2], Z |-> p[3],
                  Xrange |-> r[1], Yrange |-> r[2], Zrange |-> r[3]]

Origin == <<0, 0, 0>>
\* candidate positions: the origin and the far point of each coordinate axis
Points == {Origin} \cup
          {[a \in 1..3 |-> IF a = k THEN MaxCoord ELSE 0] : k \in 1..3}
\* reference positions: points on the diagonal
RefPoints == {<<c, c, c>> : c \in Coord}
\* the ranges reported with a reference position (not varied independently)
RangeOf(p) == <<p[1], MaxCoord - p[2], MaxCoord>>

\* timestamps in any order, with duplicates; the empty series included
TimeSeqs == SeqsUpTo(Times, 0, MaxLen)
\* the same, in ascending order
SortedTimeSeqs == {t \in TimeSeqs : IsSorted(t)}
\* positions of a non-empty series sampled at times 0, 1, 2, ...
PointSeqs == SeqsUpTo(Points, 1, MaxLen)
RefPointSeqs == SeqsUpTo(RefPoints, 1, MaxLen)

Series1(ts, ps) == [i \in 1..Len(ts) |-> Row1(ts[i], ps[i])]
Series2(ts, ps) == [i \in 1..Len(ts) |-> Row2(ts[i], ps[i])]
Series3(ts, ps) == [i \in 1..Len(ts) |-> Row3(ts[i], ps[i], RangeOf(ps[i]))]

AtOrigin(ts) == [i \in 1..Len(ts) |-> Origin]
Regular(ps) == [i \in 1..Len(ps) |-> i - 1]

\* the candidate that is not varied: a single sample at time 0
Fixed1 == Series1(<<0>>, <<Origin>>)
Fixed2 == Series2(<<0>>, <<Origin>>)

\* The frames passed to run.  Either one candidate varies in its timestamps
\* against a sorted reference, or the reference varies in its timestamps, or
\* one candidate and the reference vary in their positions; a candidate that
\* is not varied is a single sample.
Init ==
  /\ \/ \E t \in TimeSeqs, r \in SortedTimeSeqs :
          /\ source1_raw = Series1(t, AtOrigin(t))
          /\ source2_raw = Fixed2
          /\ source3_raw = Series3(r, AtOrigin(r))
     \/ \E t \in TimeSeqs, r \in SortedTimeSeqs :
          /\ source1_raw = Fixed1
          /\ source2_raw = Series2(t, AtOrigin(t))
          /\ source3_raw = Series3(r, AtOrigin(r))
     \/ \E r \in TimeSeqs :
          /\ source1_raw = Fixed1
          /\ source2_raw = Fixed2
          /\ source3_raw = Series3(r, AtOrigin(r))
     \/ \E p \in PointSeqs, r \in RefPointSeqs :
          /\ source1_raw = Series1(Regular(p), p)
          /\ source2_raw = Fixed2
          /\ source3_raw = Series3(Regular(r), r)
     \/ \E p \in PointSeqs, r \in RefPointSeqs :
          /\ source1_raw = Fixed1
          /\ source2_raw = Series2(Regular(p), p)
          /\ source3_raw = Series3(Regular(r), r)
  /\ src1 = source1_raw
  /\ src2 = source2_raw
  /\ src1_3 = <<>>
  /\ src2_3 = <<>>
  /\ MAE1_3 = <<>>
  /\ MAE2_3 = <<>>
  /\ MAE = <<>>
  /\ printed = FALSE
  /\ shown = 0
  /\ pc = "sort"
  /\ err = "none"

\* --------------------------------------------------------------- actions
\* lines 12-14
SortValues ==
  /\ pc = "sort"
  /\ source1_raw' = AfterSortStatement(source1_raw)
  /\ source2_raw' = AfterSortStatement(source2_raw)
  /\ source3_raw' = AfterSortStatement(source3_raw)
  /\ src1' = source1_raw'
  /\ src2' = source2_raw'
  /\ pc' = "rename"
  /\ UNCHANGED <<src1_3, src2_3, MAE1_3, MAE2_3, MAE, printed, shown, err>>

\* lines 17-18
RenameColumns ==
  /\ pc = "rename"
  /\ src1' = Rename1(src1)
  /\ src2' = Rename2(src2)
  /\ pc' = "merge1"
  /\ UNCHANGED <<source1_raw, source2_raw, source3_raw, src1_3, src2_3,
                 MAE1_3, MAE2_3, MAE, printed, shown, err>>

\* line 22
MergeSource1 ==
  /\ pc = "merge1"
  /\ LET e == MergeError(Keys3(source3_raw), Keys1(src1))
     IN  IF e = "none"
         THEN /\ src1_3' = merge_asof(source3_raw, src1,
                                      Keys3(source3_raw), Keys1(src1))
              /\ pc' = "merge2"
              /\ err' = err
         ELSE /\ pc' = "failed"
              /\ err' = e
              /\ src1_3' = src1_3
  /\ UNCHANGED <<source1_raw, source2_raw, source3_raw, src1, src2, src2_3,
                 MAE1_3, MAE2_3, MAE, printed, shown>>

\* line 23
MergeSource2 ==
  /\ pc = "merge2"
  /\ LET e == MergeError(Keys3(source3_raw), Keys2(src2))
     IN  IF e = "none"
         THEN /\ src2_3' = merge_asof(source3_raw, src2,
                                      Keys3(source3_raw), Keys2(src2))
              /\ pc' = "plots"
              /\ err' = err
         ELSE /\ pc' = "failed"
              /\ err' = e
              /\ src2_3' = src2_3
  /\ UNCHANGED <<source1_raw, source2_raw, source3_raw, src1, src2, src1_3,
                 MAE1_3, MAE2_3, MAE, printed, shown>>

\* lines 26-64: four figures, each presented by plt.show()
PlotCorrelations ==
  /\ pc = "plots"
  /\ shown' = shown + 4
  /\ pc' = "metrics"
  /\ UNCHANGED <<source1_raw, source2_raw, source3_raw, src1, src2, src1_3,
                 src2_3, MAE1_3, MAE2_3, MAE, printed, err>>

\* lines 67-72
ComputeMAE ==
  /\ pc = "metrics"
  /\ LET e1 == MetricError(src1_3)
         e2 == MetricError(src2_3)
     IN  IF e1 # "none"
         THEN /\ pc' = "failed"
              /\ err' = e1
              /\ UNCHANGED <<MAE1_3, MAE2_3>>
         ELSE IF e2 # "none"
         THEN /\ pc' = "failed"
              /\ err' = e2
              /\ MAE1_3' = Source1Errors(src1_3)
              /\ MAE2_3' = MAE2_3
         ELSE /\ pc' = "table"
              /\ err' = err
              /\ MAE1_3' = Source1Errors(src1_3)
              /\ MAE2_3' = Source2Errors(src1_3, src2_3)
  /\ UNCHANGED <<source1_raw, source2_raw, source3_raw, src1, src2, src1_3,
                 src2_3, MAE, printed, shown>>

\* lines 75-84
PrintTable ==
  /\ pc = "table"
  /\ MAE' = TableRows(MAE1_3, MAE2_3, source3_raw)
  /\ printed' = TRUE
  /\ pc' = "bland_altman"
  /\ UNCHANGED <<source1_raw, source2_raw, source3_raw, src1, src2, src1_3,
                 src2_3, MAE1_3, MAE2_3, shown, err>>

\* lines 89-114: three figures, each presented by plt.show()
PlotBlandAltman ==
  /\ pc = "bland_altman"
  /\ shown' = shown + 3
  /\ pc' = "done"
  /\ UNCHANGED <<source1_raw, source2_raw, source3_raw, src1, src2, src1_3,
                 src2_3, MAE1_3, MAE2_3, MAE, printed, err>>

Next ==
  \/ SortValues
  \/ RenameColumns
  \/ MergeSource1
  \/ MergeSource2
  \/ PlotCorrelations
  \/ ComputeMAE
  \/ PrintTable
  \/ PlotBlandAltman

Spec == Init /\ [][Next]_vars

\* ============================================================ properties
AfterMerge1 == {"merge2", "plots", "metrics", "table", "bland_altman", "done"}
AfterMerge2 == {"plots", "metrics", "table", "bland_altman", "done"}
AfterMetrics == {"table", "bland_altman", "done"}
SortErrors == {"ValueError: left keys must be sorted",
               "ValueError: right keys must be sorted"}

\* One matched candidate row of `cand` for every reference row, in order
OneMatchPerReference(aligned, cand) ==
  /\ Len(aligned) = Len(source3_raw)
  /\ \A i \in 1..Len(aligned) :
       /\ aligned[i].left = source3_raw[i]
       /\ Len(aligned[i].right) = 1
       /\ \E j \in 1..Len(cand) : aligned[i].right[1] = cand[j]

\* C1: for a non-empty sorted reference series and a non-empty sorted
\* candidate series, the aligned table has exactly one row per reference
\* sample, in reference order, and each row carries exactly one matched
\* sample of the candidate series, however distant.
C1_OneRowPerReference ==
  /\ (pc \in AfterMerge1 /\ source3_raw # <<>> /\ source1_raw # <<>>)
       => OneMatchPerReference(src1_3, src1)
  /\ (pc \in AfterMerge2 /\ source3_raw # <<>> /\ source2_raw # <<>>)
       => OneMatchPerReference(src2_3, src2)

\* C1 witness: a finished run in which three reference samples, the first
\* far from it, were all matched to the single sample of Source 1.
C1_Witness ==
  /\ pc = "done"
  /\ Len(src1) = 1
  /\ Len(src1_3) = 3
  /\ src1_3[1].left.Time = 0
  /\ src1[1].Time_1 = MaxTime
  /\ \A i \in 1..3 : src1_3[i].right = <<src1[1]>>

NoneNearer(aligned, i, keys, matched_time) ==
  \A j \in 1..Len(keys) :
     Abs(keys[j] - aligned[i].left.Time)
       >= Abs(matched_time - aligned[i].left.Time)

\* C2: no sample of the candidate series is strictly nearer in time to a
\* reference sample than the sample matched to it.
C2_NearestMatch ==
  /\ (pc \in AfterMerge1 /\ src1 # <<>>) =>
       \A i \in 1..Len(src1_3) :
          /\ src1_3[i].right # <<>>
          /\ NoneNearer(src1_3, i, Keys1(src1), src1_3[i].right[1].Time_1)
  /\ (pc \in AfterMerge2 /\ src2 # <<>>) =>
       \A i \in 1..Len(src2_3) :
          /\ src2_3[i].right # <<>>
          /\ NoneNearer(src2_3, i, Keys2(src2), src2_3[i].right[1].Time_2)

\* C2 witness: a reference sample lies between two candidate samples, is
\* nearer to the later one, and was matched to the later one.
C2_Witness ==
  /\ pc \in AfterMerge2
  /\ \E i \in 1..Len(src2_3), j, k \in 1..Len(src2) :
       LET t == src2_3[i].left.Time
       IN  /\ src2[j].Time_2 < t
           /\ t < src2[k].Time_2
           /\ src2[k].Time_2 - t < t - src2[j].Time_2
           /\ src2_3[i].right = <<src2[k]>>

\* The reference time t is tied between an earlier and a later candidate key
\* that are both nearest
Tie(keys, t, earlier, later) ==
  /\ earlier < t
  /\ t < later
  /\ t - earlier = later - t
  /\ \A m \in 1..Len(keys) : Abs(keys[m] - t) >= t - earlier

\* C3: when an earlier and a later candidate sample are equidistant from a
\* reference sample, and nearest to it, the earlier one is matched.
C3_TieGoesEarlier ==
  /\ pc \in AfterMerge1 =>
       \A i \in 1..Len(src1_3), j, k \in 1..Len(src1) :
          Tie(Keys1(src1), src1_3[i].left.Time, src1[j].Time_1, src1[k].Time_1)
            => /\ src1_3[i].right # <<>>
               /\ src1_3[i].right[1].Time_1 = src1[j].Time_1
  /\ pc \in AfterMerge2 =>
       \A i \in 1..Len(src2_3), j, k \in 1..Len(src2) :
          Tie(Keys2(src2), src2_3[i].left.Time, src2[j].Time_2, src2[k].Time_2)
            => /\ src2_3[i].right # <<>>
               /\ src2_3[i].right[1].Time_2 = src2[j].Time_2

\* C3 witness: Source 1 was merged and some reference sample was tied.
C3_Witness ==
  /\ pc \in AfterMerge1
  /\ \E i \in 1..Len(src1_3), j, k \in 1..Len(src1) :
       Tie(Keys1(src1), src1_3[i].left.Time, src1[j].Time_1, src1[k].Time_1)

\* C4: run sorts the three series by timestamp before merging, so no input
\* order raises an error and the aligned tables are those of the sorted
\* series.
C4_SortsBeforeMerging ==
  /\ err \notin SortErrors
  /\ pc \in AfterMerge1 =>
       src1_3 = merge_asof(sort_values(source3_raw),
                           Rename1(sort_values(source1_raw)),
                           Keys3(sort_values(source3_raw)),
                           Keys1(Rename1(sort_values(source1_raw))))
  /\ pc \in AfterMerge2 =>
       src2_3 = merge_asof(sort_values(source3_raw),
                           Rename2(sort_values(source2_raw)),
                           Keys3(sort_values(source3_raw)),
                           Keys2(Rename2(sort_values(source2_raw))))

\* C5: with an empty reference or candidate series the merge itself fails:
\* no aligned table is produced from it and no figure or table is presented.
C5_EmptySeriesFailsInMerge ==
  /\ (source3_raw = <<>> \/ source1_raw = <<>>) =>
       (pc \notin AfterMerge1 /\ shown = 0 /\ ~printed)
  /\ source2_raw = <<>> =>
       (pc \notin AfterMerge2 /\ shown = 0 /\ ~printed)

\* Total of f over a finite index set
RECURSIVE Total(_, _)
Total(f, S) ==
  IF S = {} THEN 0
  ELSE LET i == CHOOSE j \in S : TRUE IN f[i] + Total(f, S \ {i})

\* |reference - matched| of every aligned pair, for one pair of columns
PairErrors(aligned, ref_col, cand_col) ==
  [i \in 1..Len(aligned) |->
     LET d == aligned[i].left[ref_col] - aligned[i].right[1][cand_col]
     IN  IF d >= 0 THEN d ELSE -d]

\* v (in units of 1e-4) is num/den rounded to 4 decimal places
IsRounded4(v, num, den) == 2 * Abs(v * den - 10000 * num) <= den

\* e is exactly the mean absolute error of the pairs, and shown its rounding
IsMeanAbsError(e, shown_value, aligned, ref_col, cand_col) ==
  LET total == Total(PairErrors(aligned, ref_col, cand_col),
                     1..Len(aligned))
  IN  /\ e.num * Len(aligned) = total * e.den
      /\ IsRounded4(shown_value, total, Len(aligned))

\* C6: each axis value in the row of Source 1 (Source 2) is the mean over
\* the pairs of that source's own aligned table of |reference - matched| on
\* that axis, rounded to 4 decimals in the table only.
C6_TableRowsAreOwnMAE ==
  printed =>
    /\ MAE[1][1] = "Source 1"
    /\ IsMeanAbsError(MAE1_3.x, MAE[1][2], src1_3, "X", "X_1")
    /\ IsMeanAbsError(MAE1_3.y, MAE[1][3], src1_3, "Y", "Y_1")
    /\ IsMeanAbsError(MAE1_3.z, MAE[1][4], src1_3, "Z", "Z_1")
    /\ MAE[2][1] = "Source 2"
    /\ IsMeanAbsError(MAE2_3.x, MAE[2][2], src2_3, "X", "X_2")
    /\ IsMeanAbsError(MAE2_3.y, MAE[2][3], src2_3, "Y", "Y_2")
    /\ IsMeanAbsError(MAE2_3.z, MAE[2][4], src2_3, "Z", "Z_2")

\* C6 witness: a printed table whose Source 2 row differs per axis, holds a
\* value that needed rounding (2/3 -> 0.6667) and differs from Source 1's.
C6_Witness ==
  /\ printed
  /\ Len(src2_3) = 3
  /\ MAE[2][2] = 6667
  /\ MAE[2][3] # MAE[2][2]
  /\ MAE[1][2] # MAE[2][2]

AxisColumns == {<<"x", "X", "X_1", "X_2">>, <<"y", "Y", "Y_1", "Y_2">>,
                <<"z", "Z", "Z_1", "Z_2">>}

\* C7: every computed error is >= 0, and is 0 exactly when every aligned
\* pair has equal reference and matched values on that axis.
C7_ErrorNonNegativeZeroIffEqual ==
  pc \in AfterMetrics =>
    \A c \in AxisColumns :
       /\ MAE1_3[c[1]].den > 0 /\ MAE1_3[c[1]].num >= 0
       /\ MAE2_3[c[1]].den > 0 /\ MAE2_3[c[1]].num >= 0
       /\ MAE1_3[c[1]].num = 0 <=>
            \A i \in 1..Len(src1_3) :
               src1_3[i].left[c[2]] = src1_3[i].right[1][c[3]]
       /\ MAE2_3[c[1]].num = 0 <=>
            \A i \in 1..Len(src2_3) :
               src2_3[i].left[c[2]] = src2_3[i].right[1][c[4]]

\* C7 witness: the X errors of Source 1 have both signs and cancel in a
\* plain sum, while the Y values all agree and the Y error is 0.
C7_Witness ==
  /\ pc \in AfterMetrics
  /\ \E i, j \in 1..Len(src1_3) :
       /\ src1_3[i].left.X < src1_3[i].right[1].X_1
       /\ src1_3[j].left.X > src1_3[j].right[1].X_1
  /\ SignedErrorSum(src1_3, "X", "X_1", Len(src1_3)) = 0
  /\ MAE1_3.x.num > 0
  /\ MAE1_3.y.num = 0

\* Source 1 error minus Source 2 error on one axis, from the unrounded
\* values, rounded once
RoundedDifference(e1, e2) ==
  Round4([num |-> e1.num * e2.den - e2.num * e1.den, den |-> e1.den * e2.den])

IsRoundedMean(v, col) ==
  IsRounded4(v, Total([i \in 1..Len(source3_raw) |-> source3_raw[i][col]],
                      1..Len(source3_raw)),
             Len(source3_raw))

C9_FailedRunPresentsNothing ==
  pc = "failed" => (shown = 0 /\ ~printed)

\* C10: no step of run changes a frame passed by the caller.
C10_InputsUnchanged ==
  [][/\ source1_raw' = source1_raw
     /\ source2_raw' = source2_raw
     /\ source3_raw' = source3_raw]_vars

\* C10 witness: run was given an unsorted Source 1 and has ended.
C10_Witness ==
  /\ pc \in {"failed", "done"}
  /\ \E i \in 1..(Len(source1_raw) - 1) :
       source1_raw[i].Time > source1_raw[i + 1].Time

====
